---- MODULE Spec2Model ----
(***************************************************************************)
(* Model of automatic.py: the address validator, the worker-suffix         *)
(* replacer, the in-place patcher of an XMRig config.json and the          *)
(* read-only preview of the GUI.                                           *)
(*                                                                         *)
(* Strings are sequences of one-character strings.  A file is a record     *)
(* [fmt, nl, doc]: the document it denotes, the layout of its text and     *)
(* the line terminator its bytes use.                                      *)
(***************************************************************************)
EXTENDS Integers, Sequences, FiniteSets, TLC

VARIABLES
    primary,     \* content of the file at in_path
    backup,      \* content of the file at in_path + ".bak"
    linesep,     \* os.linesep of the platform: "lf" or "crlf"
    sol,         \* the replacement value (sol_addr / the entry field)
    pc,          \* position inside patch_xmrig_config_inplace
    data,        \* the in-memory document of the running call
    changed,     \* local: change counter
    preview,     \* local: preview lines
    result,      \* what the call returned or raised
    pre,         \* history: primary at the start of the running call
    preBak,      \* history: backup at the start of the running call
    bakDone,     \* history: this call wrote its backup completely
    primOpened,  \* history: this call opened in_path for writing
    last,        \* history: outcome of the previous call
    calls,       \* number of calls started
    pv,          \* what App.preview showed last
    vin,         \* validator: how the input string was built
    vstr,        \* validator: the input string
    vout         \* validator: the verdict

vars == <<primary, backup, linesep, sol, pc, data, changed, preview, result,
          pre, preBak, bakDone, primOpened, last, calls, pv, vin, vstr, vout>>

patchVars == <<primary, backup, linesep, sol, pc, data, changed, preview, result,
               pre, preBak, bakDone, primOpened, last, calls, pv>>

valVars == <<vin, vstr, vout>>

---------------------------------------------------------------------------
(* Bounds of the model *)

MaxPools == 2
MaxCalls == 2
LongLen == 30
MaxPad == 1

---------------------------------------------------------------------------
(* Strings *)

Rep(c, n) == [k \in 1..n |-> c]

Dot == "."

HasDot(s) == \E k \in 1..Len(s) : s[k] = Dot

\* index of the last "." of s (s contains one)
LastDot(s) == CHOOSE k \in 1..Len(s) :
                 /\ s[k] = Dot
                 /\ \A m \in (k+1)..Len(s) : s[m] # Dot

\* the split taken at the first "." instead
RSplitPrefix_first(s) ==
    SubSeq(s, 1, (CHOOSE k \in 1..Len(s) :
                     s[k] = Dot /\ \A m \in 1..(k-1) : s[m] # Dot) - 1)

\* user_value.rsplit(".", 1)[0]
RSplitPrefix(s) == SubSeq(s, 1, LastDot(s) - 1)

TailLen == 28

\* s[-28:]
Last28(s) == IF Len(s) <= TailLen THEN s
             ELSE SubSeq(s, Len(s) - TailLen + 1, Len(s))

Whitespace == {" ", "\t", "\n"}

RECURSIVE LStrip(_)
LStrip(s) == IF s # <<>> /\ Head(s) \in Whitespace
             THEN LStrip(SubSeq(s, 2, Len(s)))
             ELSE s

RECURSIVE RStrip(_)
RStrip(s) == IF s # <<>> /\ s[Len(s)] \in Whitespace
             THEN RStrip(SubSeq(s, 1, Len(s) - 1))
             ELSE s

\* str.strip()
Strip(s) == RStrip(LStrip(s))

---------------------------------------------------------------------------
(* looks_like_solana_address *)

MinAddrLen == 32
MaxAddrLen == 44

\* the character class [1-9A-HJ-NP-Za-km-z]
Base58 ==
    {"1","2","3","4","5","6","7","8","9"} \cup
    {"A","B","C","D","E","F","G","H"} \cup {"J","K","L","M","N"} \cup
    {"P","Q","R","S","T","U","V","W","X","Y","Z"} \cup
    {"a","b","c","d","e","f","g","h","i","j","k"} \cup
    {"m","n","o","p","q","r","s","t","u","v","w","x","y","z"}

\* re.fullmatch(r"[1-9A-HJ-NP-Za-km-z]+", s)
FullMatchBase58(s) == Len(s) >= 1 /\ \A k \in 1..Len(s) : s[k] \in Base58

looks_like_solana_address_nostrip(s0) ==
    LET s == s0 IN
    IF ~(MinAddrLen <= Len(s) /\ Len(s) <= MaxAddrLen) THEN FALSE
    ELSE IF ~FullMatchBase58(s) THEN FALSE
    ELSE TRUE

looks_like_solana_address(s0) ==
    LET s == Strip(s0) IN
    IF ~(MinAddrLen <= Len(s) /\ Len(s) <= MaxAddrLen) THEN FALSE
    ELSE IF ~FullMatchBase58(s) THEN FALSE
    ELSE TRUE

---------------------------------------------------------------------------
(* JSON values and documents *)

Str(s) == [t |-> "str", s |-> s]
Num == [t |-> "num", s |-> <<>>]
None == [t |-> "none", s |-> <<>>]

\* a pool record {"url": ..., "user": u}; u = None when the key is missing
PoolMap(u) == [t |-> "map", v |-> None, user |-> u, url |-> "pool.example:3333"]
\* an element of "pools" that is not a mapping
PoolScalar(v) == [t |-> "scalar", v |-> v, user |-> None, url |-> ""]

\* a top-level mapping; pools.t says what data.get("pools") is
DocMap(pt, items, extra) ==
    [t |-> "map", pools |-> [t |-> pt, items |-> items], extra |-> extra]
\* a top-level value that is not a mapping
DocList == [t |-> "list", pools |-> [t |-> "none", items |-> <<>>], extra |-> "plain"]
NoDoc == [t |-> "none", pools |-> [t |-> "none", items |-> <<>>], extra |-> "plain"]

---------------------------------------------------------------------------
(* replace_worker_part *)

replace_worker_part_append(user_value, sol_addr) ==
    IF user_value.t # "str" \/ ~HasDot(user_value.s) THEN user_value
    ELSE Str(user_value.s \o <<Dot>> \o sol_addr)

replace_worker_part(user_value, sol_addr) ==
    IF user_value.t # "str" \/ ~HasDot(user_value.s) THEN user_value
    ELSE Str(RSplitPrefix(user_value.s) \o <<Dot>> \o sol_addr)

\* f"pools[{i}].user: ...{u[-28:]}  ->  ...{new_u[-28:]}"
PreviewLine(i, u, new_u) == [idx |-> i, old |-> Last28(u.s), new |-> Last28(new_u.s)]

---------------------------------------------------------------------------
(* Text files *)

\* Path.read_text: universal newlines turn "\r\n" into "\n"
ReadText(f) == [f EXCEPT !.nl = IF @ = "crlf" THEN "lf" ELSE @]

\* Path.write_text: "\n" is written as os.linesep
WriteText(txt) == [txt EXCEPT !.nl = IF @ = "lf" THEN linesep ELSE @]

\* the text can be encoded as UTF-8; json.dumps(ensure_ascii=False) emits a
\* lone surrogate raw, the hand-written file holds it as an escape
Encodable(txt) == ~(txt.fmt = "indent2" /\ txt.doc.extra = "surrogate")

\* json.loads succeeds
Parses(txt) == txt.fmt \in {"hand", "indent2"}
json_loads(txt) == txt.doc

\* json.dumps(data, ensure_ascii=False, indent=2)
json_dumps(d) == [fmt |-> "indent2", nl |-> "lf", doc |-> d]

\* what open(path, "w") leaves, and what a failed write leaves behind
Truncated == [fmt |-> "truncated", nl |-> "none", doc |-> NoDoc]
NoFile == [fmt |-> "nofile", nl |-> "none", doc |-> NoDoc]
Garbage == [fmt |-> "garbage", nl |-> "lf", doc |-> NoDoc]

InPath == <<"config", ".json">>
Suffix(p) == p[Len(p)]
WithSuffix(p, sfx) == SubSeq(p, 1, Len(p) - 1) \o sfx
\* in_path.with_suffix(in_path.suffix + ".bak")
BackupPath(p) == WithSuffix(p, <<Suffix(p), ".bak">>)

---------------------------------------------------------------------------
(* The loop of patch_xmrig_config_inplace *)

\* one iteration: acc = [pools, changed, preview], i is the 1-based position
PatchStep_nocheck(acc, i, r) ==
    LET pool == acc.pools[i] IN
    IF pool.t # "map" THEN acc
    ELSE LET u == pool.user IN
         IF u.t = "str" /\ HasDot(u.s)
         THEN LET new_u == replace_worker_part(u, r) IN
              [pools   |-> [acc.pools EXCEPT ![i].user = new_u],
               changed |-> acc.changed + 1,
               preview |-> Append(acc.preview, PreviewLine(i - 1, u, new_u))]
         ELSE acc

PatchStep_anystr(acc, i, r) ==
    LET pool == acc.pools[i] IN
    IF pool.t # "map" THEN acc
    ELSE LET u == pool.user IN
         IF u.t = "str"
         THEN LET new_u == IF HasDot(u.s) THEN replace_worker_part(u, r)
                           ELSE Str(u.s \o <<Dot>> \o r) IN
              IF new_u # u
              THEN [pools   |-> [acc.pools EXCEPT ![i].user = new_u],
                    changed |-> acc.changed + 1,
                    preview |-> Append(acc.preview, PreviewLine(i - 1, u, new_u))]
              ELSE acc
         ELSE acc

PatchStep(acc, i, r) ==
    LET pool == acc.pools[i] IN
    IF pool.t # "map" THEN acc
    ELSE LET u == pool.user IN
         IF u.t = "str" /\ HasDot(u.s)
         THEN LET new_u == replace_worker_part(u, r) IN
              IF new_u # u
              THEN [pools   |-> [acc.pools EXCEPT ![i].user = new_u],
                    changed |-> acc.changed + 1,
                    preview |-> Append(acc.preview, PreviewLine(i - 1, u, new_u))]
              ELSE acc
         ELSE acc

RECURSIVE PatchLoop(_, _, _)
PatchLoop(acc, i, r) ==
    IF i > Len(acc.pools) THEN acc
    ELSE PatchLoop(PatchStep(acc, i, r), i + 1, r)

PatchPools(pools, r) ==
    PatchLoop([pools |-> pools, changed |-> 0, preview |-> <<>>], 1, r)

---------------------------------------------------------------------------
(* The loop of App.preview *)

PreviewStep_offby(acc, pools, i, r) ==
    LET pool == pools[i] IN
    IF pool.t = "map" /\ pool.user.t = "str"
    THEN LET u == pool.user IN
         IF HasDot(u.s)
         THEN LET new_u == replace_worker_part(u, r) IN
              IF new_u # u
              THEN [count |-> acc.count + 1,
                    lines |-> Append(acc.lines, PreviewLine(i, u, new_u))]
              ELSE acc
         ELSE acc
    ELSE acc

PreviewStep(acc, pools, i, r) ==
    LET pool == pools[i] IN
    IF pool.t = "map" /\ pool.user.t = "str"
    THEN LET u == pool.user IN
         IF HasDot(u.s)
         THEN LET new_u == replace_worker_part(u, r) IN
              IF new_u # u
              THEN [count |-> acc.count + 1,
                    lines |-> Append(acc.lines, PreviewLine(i - 1, u, new_u))]
              ELSE acc
         ELSE acc
    ELSE acc

RECURSIVE PreviewLoop(_, _, _, _)
PreviewLoop(acc, pools, i, r) ==
    IF i > Len(pools) THEN acc
    ELSE PreviewLoop(PreviewStep(acc, pools, i, r), pools, i + 1, r)

PreviewPools(pools, r) == PreviewLoop([count |-> 0, lines |-> <<>>], pools, 1, r)

---------------------------------------------------------------------------
(* Inputs *)

LongW == Rep("w", LongLen)

UserStrs == { <<"w">>,
              <<"w", ".", "v", ".", "a">>,
              LongW \o <<".", "o">> }

Elems == { PoolScalar(Str(<<"w", ".", "o">>)), PoolMap(None), PoolMap(Num) }
         \cup { PoolMap(Str(s)) : s \in UserStrs }

LongSol == <<"a", ".">> \o Rep("N", LongLen)

Sols == { <<"a">>, LongSol }

PoolLists == UNION { [1..n -> Elems] : n \in 0..MaxPools }

Docs == { DocMap("list", items, "plain") : items \in PoolLists }
        \cup { DocMap("list", <<e>>, "surrogate") : e \in Elems }
        \cup { DocMap("none", <<>>, "plain"), DocMap("scalar", <<>>, "plain"), DocList }

InitFiles == { [fmt |-> "hand", nl |-> n, doc |-> d] : n \in {"lf", "crlf"}, d \in Docs }
             \cup { Garbage }

OldBackup == [fmt |-> "hand", nl |-> "lf",
              doc |-> DocMap("list", <<PoolMap(Str(<<"w", ".", "o">>))>>, "plain")]

---------------------------------------------------------------------------
(* patch_xmrig_config_inplace *)

NoResult == [kind |-> "none", changed |-> 0, out_path |-> <<>>,
             backup_path |-> <<>>, preview |-> <<>>]
Raised(e) == [NoResult EXCEPT !.kind = e]
Returned(c, o, b, p) == [kind |-> "ok", changed |-> c, out_path |-> o,
                         backup_path |-> b, preview |-> p]

NoLast == [ok |-> FALSE, sol |-> <<>>]
NoPv == [kind |-> "cleared", sol |-> <<>>, src |-> NoFile, count |-> 0, lines |-> <<>>]

\* lines 39-56 on the text read from in_path
LoadOutcome(txt, r) ==
    IF ~Parses(txt) THEN [err |-> "ParseError", data |-> NoDoc, changed |-> 0, preview |-> <<>>]
    ELSE LET d == json_loads(txt) IN
         IF d.t # "map"
         THEN [err |-> "AttributeError", data |-> NoDoc, changed |-> 0, preview |-> <<>>]
         ELSE IF d.pools.t # "list" \/ Len(d.pools.items) = 0
         THEN [err |-> "SchemaError", data |-> NoDoc, changed |-> 0, preview |-> <<>>]
         ELSE LET acc == PatchPools(d.pools.items, r) IN
              [err |-> "none",
               data |-> [d EXCEPT !.pools.items = acc.pools],
               changed |-> acc.changed,
               preview |-> acc.preview]

StartCall ==
    /\ pc = "idle"
    /\ calls < MaxCalls
    /\ calls' = calls + 1
    /\ pre' = primary
    /\ preBak' = backup
    /\ bakDone' = FALSE
    /\ primOpened' = FALSE

\* line 39: in_path.read_text raises
LoadReadFail ==
    /\ StartCall
    /\ pc' = "raised"
    /\ result' = Raised("IOError")
    /\ UNCHANGED <<primary, backup, linesep, sol, data, changed, preview, last, pv>>

\* lines 39-56
Load ==
    LET out == LoadOutcome(ReadText(primary), sol) IN
    /\ StartCall
    /\ IF out.err # "none"
       THEN /\ pc' = "raised"
            /\ result' = Raised(out.err)
            /\ UNCHANGED <<data, changed, preview>>
       ELSE /\ pc' = "backup"
            /\ data' = out.data
            /\ changed' = out.changed
            /\ preview' = out.preview
            /\ UNCHANGED result
    /\ UNCHANGED <<primary, backup, linesep, sol, last, pv>>

Fail(at, e) ==
    /\ pc = at
    /\ pc' = "raised"
    /\ result' = Raised(e)
    /\ UNCHANGED <<linesep, sol, data, changed, preview, pre, preBak,
                   bakDone, primOpened, last, calls, pv>>

\* line 60: in_path.read_text raises
BackupReadFail == Fail("backup", "IOError") /\ UNCHANGED <<primary, backup>>

\* line 60: backup_path cannot be opened for writing
BackupOpenFail == Fail("backup", "IOError") /\ UNCHANGED <<primary, backup>>

\* line 60: open(backup_path, "w") truncates the file
BackupOpen ==
    /\ pc = "backup"
    /\ backup' = Truncated
    /\ pc' = "backup_write"
    /\ UNCHANGED <<primary, linesep, sol, data, changed, preview, result, pre, preBak,
                   bakDone, primOpened, last, calls, pv>>

BackupWriteFail_ignored ==
    /\ pc = "backup_write"
    /\ pc' = "save"
    /\ UNCHANGED <<primary, backup, linesep, sol, data, changed, preview, result, pre,
                   preBak, bakDone, primOpened, last, calls, pv>>

\* line 60: the write to backup_path raises
BackupWriteFail == Fail("backup_write", "IOError") /\ UNCHANGED <<primary, backup>>

\* line 60: the text read from in_path is written to backup_path
BackupWrite ==
    /\ pc = "backup_write"
    /\ backup' = WriteText(ReadText(primary))
    /\ bakDone' = TRUE
    /\ pc' = "save"
    /\ UNCHANGED <<primary, linesep, sol, data, changed, preview, result, pre, preBak,
                   primOpened, last, calls, pv>>

\* line 63: in_path cannot be opened for writing
SaveOpenFail == Fail("save", "IOError") /\ UNCHANGED <<primary, backup>>

\* line 63: open(in_path, "w") truncates the file
SaveOpen ==
    /\ pc = "save"
    /\ primary' = Truncated
    /\ primOpened' = TRUE
    /\ pc' = "save_write"
    /\ UNCHANGED <<backup, linesep, sol, data, changed, preview, result, pre, preBak,
                   bakDone, last, calls, pv>>

\* line 63: the write to in_path raises
SaveWriteFail == Fail("save_write", "IOError") /\ UNCHANGED <<primary, backup>>

\* line 63: the serialized document cannot be encoded
SaveEncodeFail ==
    /\ ~Encodable(json_dumps(data))
    /\ Fail("save_write", "UnicodeEncodeError")
    /\ UNCHANGED <<primary, backup>>

\* lines 63-65
SaveWrite ==
    /\ pc = "save_write"
    /\ Encodable(json_dumps(data))
    /\ primary' = WriteText(json_dumps(data))
    /\ result' = Returned(changed, InPath, BackupPath(InPath), preview)
    /\ pc' = "returned"
    /\ UNCHANGED <<backup, linesep, sol, data, changed, preview, pre, preBak,
                   bakDone, primOpened, last, calls, pv>>

\* the call is over; its locals are gone
Return ==
    /\ pc \in {"returned", "raised"}
    /\ pc' = "idle"
    /\ last' = [ok |-> pc = "returned", sol |-> sol]
    /\ data' = NoDoc
    /\ changed' = 0
    /\ preview' = <<>>
    /\ result' = NoResult
    /\ pre' = NoFile
    /\ preBak' = NoFile
    /\ bakDone' = FALSE
    /\ primOpened' = FALSE
    /\ pv' = NoPv
    /\ UNCHANGED <<primary, backup, linesep, sol, calls>>

---------------------------------------------------------------------------
(* App.preview *)

\* lines 144-163 on the text read from in_path
PreviewOutcome(txt, r) ==
    IF ~Parses(txt) THEN [kind |-> "error", count |-> 0, lines |-> <<>>]
    ELSE LET d == json_loads(txt) IN
         IF d.t # "map" THEN [kind |-> "error", count |-> 0, lines |-> <<>>]
         ELSE LET pools == IF d.pools.t = "list" THEN d.pools.items ELSE <<>>
                  acc == PreviewPools(pools, r)
              IN  IF acc.count = 0
                  THEN [kind |-> "none_found", count |-> 0, lines |-> <<>>]
                  ELSE [kind |-> "lines", count |-> acc.count, lines |-> acc.lines]

\* lines 128-163; confirm is the answer to the askyesno of line 141, and pv is
\* what txt_preview and lbl_status show afterwards (NoPv: the text was deleted)
Preview ==
    \E confirm \in BOOLEAN :
        LET r == Strip(sol)
            out == PreviewOutcome(ReadText(primary), r)
        IN
        /\ pc = "idle"
        /\ calls < MaxCalls
        /\ r # <<>>
        /\ IF ~looks_like_solana_address(r) /\ ~confirm
           THEN pv' = NoPv
           ELSE pv' = [kind |-> out.kind, sol |-> r, src |-> primary,
                       count |-> out.count, lines |-> out.lines]
        /\ UNCHANGED <<primary, backup, linesep, sol, pc, data, changed, preview, result,
                       pre, preBak, bakDone, primOpened, last, calls>>

\* line 145: in_path.read_text raises inside the try block
PreviewReadFail ==
    /\ pc = "idle"
    /\ calls < MaxCalls
    /\ Strip(sol) # <<>>
    /\ pv' = NoPv
    /\ UNCHANGED <<primary, backup, linesep, sol, pc, data, changed, preview, result,
                   pre, preBak, bakDone, primOpened, last, calls>>

---------------------------------------------------------------------------
(* The patcher's specification *)

NoVin == [lead |-> 0, trail |-> 0, ws |-> " ", n |-> 0, c |-> "1", bad |-> "", pos |-> "first"]

Init ==
    /\ primary \in InitFiles
    /\ backup \in {NoFile, OldBackup}
    /\ linesep \in {"lf", "crlf"}
    /\ sol \in Sols
    /\ pc = "idle"
    /\ data = NoDoc
    /\ changed = 0
    /\ preview = <<>>
    /\ result = NoResult
    /\ pre = NoFile
    /\ preBak = NoFile
    /\ bakDone = FALSE
    /\ primOpened = FALSE
    /\ last = NoLast
    /\ calls = 0
    /\ pv = NoPv
    /\ vin = NoVin
    /\ vstr = <<>>
    /\ vout = [done |-> FALSE, val |-> FALSE]

Next ==
    \/ (LoadReadFail /\ UNCHANGED valVars)
    \/ (Load /\ UNCHANGED valVars)
    \/ (BackupReadFail /\ UNCHANGED valVars)
    \/ (BackupOpenFail /\ UNCHANGED valVars)
    \/ (BackupOpen /\ UNCHANGED valVars)
    \/ (BackupWriteFail /\ UNCHANGED valVars)
    \/ (BackupWrite /\ UNCHANGED valVars)
    \/ (SaveOpenFail /\ UNCHANGED valVars)
    \/ (SaveOpen /\ UNCHANGED valVars)
    \/ (SaveWriteFail /\ UNCHANGED valVars)
    \/ (SaveEncodeFail /\ UNCHANGED valVars)
    \/ (SaveWrite /\ UNCHANGED valVars)
    \/ (Return /\ UNCHANGED valVars)
    \/ (Preview /\ UNCHANGED valVars)
    \/ (PreviewReadFail /\ UNCHANGED valVars)

Spec == Init /\ [][Next]_vars

---------------------------------------------------------------------------
(* The validator's specification: the input string is built from vin *)

VLens == {0, 1, 31, 32, 33, 43, 44, 45}
GoodChars == {"1", "Z", "a", "z"}
BadChars == {"0", "O", "I", "l", ".", "-", ":", "@", "[", "{", " "}

VInputs ==
    { v \in [lead : 0..MaxPad, trail : 0..MaxPad, ws : Whitespace, n : VLens,
             c : GoodChars, bad : BadChars \cup {""}, pos : {"first", "mid", "last"}] :
        /\ (v.bad = "" => v.pos = "first")
        /\ (v.bad = " " => v.pos = "mid")
        /\ (v.n = 0 => v.bad = "")
        /\ (v.lead = 0 /\ v.trail = 0 => v.ws = " ") }

BadAt(v) == IF v.pos = "first" THEN 1
            ELSE IF v.pos = "last" THEN v.n
            ELSE (v.n + 1) \div 2

Body(v) == [k \in 1..v.n |-> IF v.bad # "" /\ k = BadAt(v) THEN v.bad ELSE v.c]

BuildInput(v) == Rep(v.ws, v.lead) \o Body(v) \o Rep(v.ws, v.trail)

InitV ==
    /\ vin \in VInputs
    /\ vstr = BuildInput(vin)
    /\ vout = [done |-> FALSE, val |-> FALSE]
    /\ primary = Garbage
    /\ backup = NoFile
    /\ linesep = "lf"
    /\ sol = <<>>
    /\ pc = "idle"
    /\ data = NoDoc
    /\ changed = 0
    /\ preview = <<>>
    /\ result = NoResult
    /\ pre = NoFile
    /\ preBak = NoFile
    /\ bakDone = FALSE
    /\ primOpened = FALSE
    /\ last = NoLast
    /\ calls = 0
    /\ pv = NoPv

Validate ==
    /\ ~vout.done
    /\ vout' = [done |-> TRUE, val |-> looks_like_solana_address(vstr)]
    /\ UNCHANGED <<vin, vstr>>
    /\ UNCHANGED patchVars

NextV == Validate

SpecV == InitV /\ [][NextV]_vars

---------------------------------------------------------------------------
(* Vocabulary of the properties *)

\* the call in progress has ended
Succeeded == pc = "returned"
Failed == pc = "raised"

\* the documents before and after the call
PreItems == pre.doc.pools.items
PostItems == primary.doc.pools.items

\* the call started on a parsable document with a non-empty "pools" list
ValidPre == /\ pre.fmt \in {"hand", "indent2"}
            /\ pre.doc.t = "map"
            /\ pre.doc.pools.t = "list"
            /\ Len(PreItems) > 0

\* the call started on a parsable document without a usable "pools" list
SchemaBadPre == /\ pre.fmt \in {"hand", "indent2"}
                /\ \/ pre.doc.t # "map"
                   \/ pre.doc.pools.t # "list"
                   \/ Len(PreItems) = 0

\* the record is a mapping whose "user" is a string with a "."
Eligible(e) == e.t = "map" /\ e.user.t = "str" /\ (\E k \in 1..Len(e.user.s) : e.user.s[k] = ".")

\* positions whose "user" differs between the two documents
Differing == { i \in 1..Len(PreItems) : PreItems[i].user # PostItems[i].user }

\* errors raised by the filesystem calls of lines 60 and 63
WriteStageErrors == {"IOError", "UnicodeEncodeError"}

---------------------------------------------------------------------------
(* C1 *)

\* C1: during a call, the primary file is opened for writing or differs from
\* its pre-call content only after this call has written its backup completely;
\* a failed backup write is never followed by the primary overwrite.
C1_BackupBeforeOverwrite ==
    (pc # "idle" /\ (primOpened \/ primary # pre))
        => (bakDone /\ backup.fmt \notin {"truncated", "nofile"})

C1_Witness == pc = "save_write" /\ primOpened /\ bakDone /\ primary # pre

---------------------------------------------------------------------------
(* C2 *)

\* C2: after a successful patch, also one with a change counter of zero, the
\* backup file's content equals the content the primary file had before the call.
C2_BackupFidelity == Succeeded => backup = pre

---------------------------------------------------------------------------
(* C3 *)

\* C3: a call on a document whose "pools" is missing, not a sequence or empty
\* fails with SchemaError (unless the read itself fails) and leaves both files
\* as they were.
C3_SchemaRejection ==
    (pc # "idle" /\ SchemaBadPre)
        => /\ Failed
           /\ result.kind \in {"SchemaError", "IOError"}
           /\ primary = pre
           /\ backup = preBak

---------------------------------------------------------------------------
(* C4 *)

\* C4: when a call ends, the primary file holds its complete pre-call content or
\* the complete serialization of the transformed document, and after a failed
\* call it holds its pre-call content.
C4_AllOrNothing ==
    /\ Succeeded => primary \in {pre, WriteText(json_dumps(data))}
    /\ Failed => primary = pre

---------------------------------------------------------------------------
(* C5 *)

\* C5 (as claimed): a successful patch that follows a successful patch with the
\* same replacement value reports count 0, no preview lines, and leaves the
\* document as the first patch left it.
C5_Idempotent ==
    (Succeeded /\ last.ok /\ last.sol = sol)
        => /\ result.changed = 0
           /\ result.preview = <<>>
           /\ primary.doc = pre.doc

\* C5 (amended): the same, for a replacement value that contains no ".".
C5_IdempotentNoDot ==
    (Succeeded /\ last.ok /\ last.sol = sol /\ (\A k \in 1..Len(sol) : sol[k] # "."))
        => /\ result.changed = 0
           /\ result.preview = <<>>
           /\ primary.doc = pre.doc

C5_Witness ==
    /\ Succeeded /\ last.ok /\ sol = <<"a">>
    /\ \E i \in 1..Len(PreItems) : PreItems[i].user = Str(LongW \o <<".", "a">>)

---------------------------------------------------------------------------
(* C6 *)

\* C6: after a successful patch, every pool whose "user" was a string P.S, S
\* being the part after its last ".", has the "user" P.R: the part up to and
\* including the original last "." is unchanged, also when P contains ".".
C6_PrefixPreserved ==
    Succeeded =>
        \A i \in 1..Len(PreItems) :
            LET a == PreItems[i]
                b == PostItems[i]
            IN  (a.t = "map" /\ a.user.t = "str") =>
                    \A k \in 1..Len(a.user.s) :
                        (a.user.s[k] = "." /\ \A m \in (k+1)..Len(a.user.s) : a.user.s[m] # ".")
                            => /\ b.user.t = "str"
                               /\ b.user.s = SubSeq(a.user.s, 1, k) \o sol
                               /\ SubSeq(b.user.s, 1, k) = SubSeq(a.user.s, 1, k)

C6_Witness ==
    /\ Succeeded /\ sol = LongSol
    /\ \E i \in 1..Len(PreItems) :
          /\ PreItems[i].user = Str(<<"w", ".", "v", ".", "a">>)
          /\ PostItems[i].user = Str(<<"w", ".", "v", ".">> \o LongSol)

---------------------------------------------------------------------------
(* C7 *)

\* C7: a step of the preview leaves both files as they are, and a successful
\* patch returns exactly the lines, in order, that the preview showed for the
\* same file content and the same replacement value.
C7_PreviewMatchesPatch ==
    [][ /\ (pc = "idle" /\ pc' = "idle") => (primary' = primary /\ backup' = backup)
        /\ (pc' = "returned" /\ pv'.kind \in {"lines", "none_found"}
               /\ pv'.src = pre' /\ pv'.sol = sol')
             => (result'.preview = pv'.lines /\ result'.changed = pv'.count) ]_vars

C7_Witness ==
    /\ Succeeded /\ pv.kind = "lines" /\ pv.src = pre /\ pv.sol = sol
    /\ Len(result.preview) = 2

---------------------------------------------------------------------------
(* C8 *)

\* C8: the validator's verdict on a string with surrounding whitespace is true
\* exactly when the trimmed length is in 32..44 and every character is base58;
\* lengths 31 and 45 are rejected, and so is any string with 0, O, I or l.
C8_ValidatorBoundary ==
    vout.done => (vout.val <=> (vin.n >= 32 /\ vin.n <= 44 /\ vin.bad = ""))

C8_Witness ==
    /\ vout.done /\ vout.val
    /\ vin.n = 44 /\ vin.lead > 0 /\ vin.trail > 0

---------------------------------------------------------------------------
(* C9 *)

\* C9: the report of a successful patch has a count equal to the number of pool
\* records whose "user" differs between the two documents and to the number of
\* preview lines, one line per changed record in increasing index order, and the
\* input path as output path; a valid document never fails before the writes,
\* so nothing eligible gives count 0, not an error.
C9_ReportConsistent ==
    /\ Succeeded =>
          /\ result.kind = "ok"
          /\ result.changed = Cardinality(Differing)
          /\ Len(result.preview) = result.changed
          /\ { result.preview[j].idx : j \in 1..Len(result.preview) }
                = { i - 1 : i \in Differing }
          /\ \A j \in 1..(Len(result.preview) - 1) :
                result.preview[j].idx < result.preview[j + 1].idx
          /\ result.out_path = InPath
          /\ ((\A i \in 1..Len(PreItems) : ~Eligible(PreItems[i])) => result.changed = 0)
    /\ (Failed /\ ValidPre) => result.kind \in WriteStageErrors

C9_Witness ==
    /\ Succeeded /\ result.changed = 1 /\ Len(PreItems) = 2
    /\ Eligible(PreItems[1]) /\ Eligible(PreItems[2])
    /\ result.preview[1].idx = 1

---------------------------------------------------------------------------
(* C10 *)

\* C10: a successful patch leaves unchanged every pool element that is not a
\* mapping, has no "user", a non-string "user" or a "user" without ".", every
\* other field of every pool record and every other top-level field; none of
\* them is counted, has a preview line, or makes the call fail.
C10_Frame ==
    /\ Succeeded =>
          /\ primary.doc.t = pre.doc.t
          /\ primary.doc.extra = pre.doc.extra
          /\ primary.doc.pools.t = pre.doc.pools.t
          /\ Len(PostItems) = Len(PreItems)
          /\ \A i \in 1..Len(PreItems) :
                /\ PostItems[i].t = PreItems[i].t
                /\ PostItems[i].v = PreItems[i].v
                /\ PostItems[i].url = PreItems[i].url
                /\ ~Eligible(PreItems[i]) => PostItems[i] = PreItems[i]
          /\ \A j \in 1..Len(result.preview) : Eligible(PreItems[result.preview[j].idx + 1])
          /\ result.changed <= Cardinality({ i \in 1..Len(PreItems) : Eligible(PreItems[i]) })
    /\ (pc \notin {"idle", "raised"}) => ValidPre
    /\ (pc # "idle" /\ ValidPre /\ Failed) => result.kind \in WriteStageErrors

C10_Witness ==
    /\ Succeeded /\ Len(PreItems) = 2 /\ result.changed = 1
    /\ PreItems[1] = PoolMap(Str(<<"w">>))
    /\ PostItems[1] = PoolMap(Str(<<"w">>))

====
